---------------------------- MODULE Spec2Model ----------------------------
(***************************************************************************)
(* Model of the SSE library in src/SSEClient.ts:                           *)
(*   - SSEServer: the sequence counter, the bounded event history, the     *)
(*     replay (getMissedEvents) and the stream adapter (streamToClient);   *)
(*   - SSEClient: the connection life cycle (connect, close, reconnect,    *)
(*     the EventSource callbacks, tryReconnect and its retry timers).      *)
(* The server and the client each run on a single-threaded event loop, so  *)
(* one action is one run-to-completion step: a public call, one callback,  *)
(* or one iteration of the for-await loop.                                 *)
(***************************************************************************)
EXTENDS Integers, Sequences, FiniteSets, TLC

(***************************************************************************)
(* Bounds of the model.                                                    *)
(***************************************************************************)
NStreams == 2          \* calls of streamToClient sharing one SSEServer
MaxItems == 3          \* items one event source yields at most
MaxAdmit == 4          \* events admitted to the history store at most
MaxHistoryCfg == 2     \* largest configured maxHistorySize
MaxIdLen == 2          \* longest lastEventId string of a request
MaxRetryCfg == 2       \* largest configured maxRetryAttempts
MaxTimers == 2         \* retry timers pending at once
MaxIntervals == 2      \* heartbeat intervals running at once
NHandlers == 2         \* handler functions the application registers
MaxCursorLen == 1      \* longest event.lastEventId of a frame
SessionAdmit == 2      \* events the store admits while the client is subscribed
DefaultMaxRetryAttempts == 10   \* this.options.maxRetryAttempts ?? 10
RandomDenominator == 30000        \* Math.random() is drawn as k / RandomDenominator
DefaultReconnectInterval == 3000  \* this.options.reconnectInterval || 3000
MaxDelay == 30000                 \* const maxDelay = 30000

Streams == 1..NStreams

(***************************************************************************)
(* Event types the sources produce, and the allowlists the controllers     *)
(* pass (src/server.ts:58 passes message/end/test; the default of          *)
(* streamToClient is the same list).                                       *)
(***************************************************************************)
EventTypes == {"message", "end", "custom"}
AllowLists == {{"message", "end"}, {"message"}}

(***************************************************************************)
(* Request strings: the characters of a lastEventId header or query value. *)
(***************************************************************************)
IdChars == {"1", "a"}
RECURSIVE StringsUpTo(_)
StringsUpTo(n) ==
    IF n = 0 THEN {<<>>}
    ELSE LET shorter == StringsUpTo(n - 1)
         IN  shorter \cup {Append(s, c) : s \in shorter, c \in IdChars}
RequestIds == StringsUpTo(MaxIdLen)

Digits == <<"0", "1", "2", "3", "4", "5", "6", "7", "8", "9">>
HexDigits == Digits \o <<"a", "b", "c", "d", "e", "f">>
UpperHexDigits == Digits \o <<"A", "B", "C", "D", "E", "F">>
\* the characters parseInt skips (StrWhiteSpaceChar); one that a string of
\* this module cannot hold is written as its code point
WhiteSpace ==
    {" ", "\t", "\n", "\r", "\f", "U+000B", "U+00A0", "U+1680", "U+2000",
     "U+2001", "U+2002", "U+2003", "U+2004", "U+2005", "U+2006", "U+2007",
     "U+2008", "U+2009", "U+200A", "U+2028", "U+2029", "U+202F", "U+205F",
     "U+3000", "U+FEFF"}

\* the value of c as a digit; 16 when c is no digit of radix 10 or 16
DigitValue(c) ==
    IF \E d \in DOMAIN HexDigits : HexDigits[d] = c
    THEN (CHOOSE d \in DOMAIN HexDigits : HexDigits[d] = c) - 1
    ELSE IF \E d \in DOMAIN UpperHexDigits : UpperHexDigits[d] = c
    THEN (CHOOSE d \in DOMAIN UpperHexDigits : UpperHexDigits[d] = c) - 1
    ELSE 16
IsDigit(c, radix) == DigitValue(c) < radix

RECURSIVE SkipWhiteSpace(_, _)
\* the first position of str from i on that holds no white space
SkipWhiteSpace(str, i) ==
    IF i > Len(str) \/ str[i] \notin WhiteSpace THEN i
    ELSE SkipWhiteSpace(str, i + 1)

RECURSIVE LeadingDigits(_, _, _, _)
\* value of the longest digit prefix of str from position i, acc so far
LeadingDigits(str, i, acc, radix) ==
    IF i > Len(str) \/ ~IsDigit(str[i], radix) THEN acc
    ELSE LeadingDigits(str, i + 1, acc * radix + DigitValue(str[i]), radix)

NaN == [kind |-> "nan", val |-> 0]
Num(n) == [kind |-> "int", val |-> n]
Absent == [kind |-> "absent", val |-> 0]

\* parseInt(lastEventId as string): leading white space is skipped, then an
\* optional sign, an optional 0x or 0X that makes the radix 16, and the digits
\* up to the first other character; no digit at all gives NaN. The value is
\* exact: the code rounds to a double from 2^53 on, far above the ids of
\* MaxIdLen digits read here.
parseInt(str) ==
    LET first == SkipWhiteSpace(str, 1)
        signed == first <= Len(str) /\ str[first] \in {"-", "+"}
        neg == signed /\ str[first] = "-"
        body == IF signed THEN first + 1 ELSE first
        hex == body + 1 <= Len(str) /\ str[body] = "0"
               /\ str[body + 1] \in {"x", "X"}
        radix == IF hex THEN 16 ELSE 10
        start == IF hex THEN body + 2 ELSE body
    IN  IF start > Len(str) \/ ~IsDigit(str[start], radix) THEN NaN
        ELSE LET v == LeadingDigits(str, start, 0, radix)
             IN  Num(IF neg THEN 0 - v ELSE v)

(***************************************************************************)
(* State.                                                                  *)
(***************************************************************************)
VARIABLES
    \* SSEServer
    maxHistorySize,   \* options.maxHistorySize
    globalCounter,    \* SSEServer.globalCounter
    eventHistory,     \* SSEServer.eventHistory: id -> SSEEvent
    \* one call of streamToClient per stream
    pc,               \* "idle", "streaming" (inside the for-await loop), "returning"
                      \* (leaving it: awaiting iterator.return()), "returned"
    allowedEvents,    \* the allowedEvents argument
    lastId,           \* the request's resumption id as streamToClient reads it
    written,          \* frames passed to res.write, in order
    ended,            \* res.end() was called
    peerClosed,       \* the remote peer has closed the connection
    pulled,           \* items the event source has yielded so far
    outcome,          \* how the loop ended: "none" while it has not
    \* records of what happened, read by the properties only
    admitted,         \* ids returned by sendEvent, in admission order
    lastEviction,     \* the last eviction: the key deleted, the keys before
    attachCounter,    \* globalCounter when the stream attached
    attachHistory,    \* eventHistory when the stream attached
    \* SSEClient
    maxRetryAttempts, \* options.maxRetryAttempts (absent or a number)
    heartbeatInterval,\* options.heartbeatInterval is set
    eventSource,      \* this.eventSource: "null", or its readyState
    reconnectAttempts,\* this.reconnectAttempts
    isClosed,         \* this.isClosed
    heartbeatTimer,   \* this.heartbeatTimer is set
    timers,           \* setTimeout callbacks of tryReconnect not yet fired
    intervals,        \* setInterval timers of startHeartbeat not cleared
    \* records of what happened, read by the properties only
    calls,            \* the callbacks the last step invoked, in order
    budgetExhausted,  \* an error found the retry budget used up in this run
    exceededCalls,    \* onMaxRetriesExceeded invocations in this run
    closedTimers,     \* pending tryReconnect timers scheduled before the last close()
    scheduledDelay,   \* the delay the last step passed to setTimeout, if it did
    reconnectInterval,\* options.reconnectInterval (absent or a number)
    unclosed,         \* EventSource objects created and not closed (readyState 0 or 1)
    listeners,        \* this.listeners: event type -> handler (NoHandler: no entry)
    frame,            \* the MessageEvent the last step handled, if it handled one
    delivered,        \* the handler invocations of the last step, in order
    storage,          \* the localStorage item under this.lastEventIdKey
    request,          \* the lastEventId parameter of the URL the last EventSource was given
    lastSeenId,       \* the id of the last frame whose id this client stored
    reconnected,      \* what the last step found, if it was a call of reconnect()
    timerConnected,   \* the last step was a retry timer that called connect()
    transport,        \* the streamToClient call serving the EventSource (0: none)
    consumed,         \* frames of that call's response the EventSource has dispatched
    esLastId,         \* the last event ID string of the EventSource
    storageThrew      \* the last step called localStorage and it threw

serverVars == <<maxHistorySize, globalCounter, eventHistory, pc, allowedEvents,
                lastId, written, ended, peerClosed, pulled, outcome,
                admitted, lastEviction, attachCounter, attachHistory>>

clientVars == <<maxRetryAttempts, heartbeatInterval, eventSource,
                reconnectAttempts, isClosed, heartbeatTimer, timers, intervals,
                calls, budgetExhausted, exceededCalls,
                closedTimers,
                scheduledDelay,
                reconnectInterval,
                unclosed,
                listeners,
                frame,
                delivered,
                storage,
                request,
                lastSeenId,
                reconnected,
                timerConnected,
                transport,
                consumed,
                esLastId,
                storageThrew>>

vars == <<serverVars, clientVars>>

(***************************************************************************)
(* The records of the client's last step.                                  *)
(***************************************************************************)
\* no MessageEvent handled
NoFrame == [some |-> FALSE, data |-> "", lastEventId |-> <<>>]

\* a step that handles no frame and invokes no handler
NoDispatch == frame' = NoFrame /\ delivered' = <<>>

\* the last step was no call of reconnect()
NoReconnect == [some |-> FALSE, attempts |-> 0, isClosed |-> FALSE, exhausted |-> FALSE]


(***************************************************************************)
(* SSEServer: history store.                                               *)
(***************************************************************************)
EmptyMap == [k \in {} |-> 0]
MapSet(m, k, v) == [x \in (DOMAIN m) \cup {k} |-> IF x = k THEN v ELSE m[x]]
MapDelete(m, k) == [x \in (DOMAIN m) \ {k} |-> m[x]]

\* variant: the newest key is taken for the oldest
oldestKey_Newest(m) == CHOOSE k \in DOMAIN m : \A j \in DOMAIN m : k >= j

\* Math.min(...this.eventHistory.keys())
oldestKey(m) == CHOOSE k \in DOMAIN m : \A j \in DOMAIN m : k <= j

\* variant: the counter is not advanced
nextCounter_NotAdvanced(counter) == counter

\* this.globalCounter++
nextCounter(counter) == counter + 1

\* the SSEEvent sendEvent builds: { ...event, id: this.globalCounter }
eventWithId(event, counter) ==
    [event |-> event.event, data |-> event.data, id |-> nextCounter(counter)]

\* sendEvent: the history after the call
sendEvent(history, counter, event, maxSize) ==
    LET stored == MapSet(history, nextCounter(counter),
                         eventWithId(event, counter))
    IN  IF Cardinality(DOMAIN stored) > maxSize
        THEN MapDelete(stored, oldestKey(stored))
        ELSE stored

\* sendEvent: what the "Clean up old events" branch deletes, for the record
evictionOf(history, counter, event, maxSize, previous) ==
    LET stored == MapSet(history, nextCounter(counter),
                         eventWithId(event, counter))
    IN  IF Cardinality(DOMAIN stored) > maxSize
        THEN [some |-> TRUE, key |-> oldestKey(stored), before |-> DOMAIN stored]
        ELSE previous

RECURSIVE missedFrom(_, _, _)
\* the loop of getMissedEvents: for (i = from; i <= counter; i++)
missedFrom(history, i, counter) ==
    IF i > counter THEN <<>>
    ELSE (IF i \in DOMAIN history THEN <<history[i]>> ELSE <<>>)
         \o missedFrom(history, i + 1, counter)

\* variant: the loop starts at lastEventId itself
getMissedEvents_Inclusive(history, counter, lastEventId) ==
    IF lastEventId.kind = "int" /\ lastEventId.val < counter
    THEN missedFrom(history, lastEventId.val, counter)
    ELSE <<>>

\* getMissedEvents(lastEventId); a NaN compares false with the counter
getMissedEvents(history, counter, lastEventId) ==
    IF lastEventId.kind = "int" /\ lastEventId.val < counter
    THEN missedFrom(history, lastEventId.val + 1, counter)
    ELSE <<>>

\* sendEventToClient: the frame "id: <id>\n" "data: <JSON of data>\n\n"
frameOf(event) == [id |-> event.id, data |-> event.data]

RECURSIVE framesOf(_)
framesOf(events) ==
    IF events = <<>> THEN <<>>
    ELSE <<frameOf(Head(events))>> \o framesOf(Tail(events))

(***************************************************************************)
(* SSEServer.streamToClient.                                               *)
(***************************************************************************)
\* const lastEventId = headers['last-event-id'] || query.lastEventId;
\* if (lastEventId) { const lastId = parseInt(lastEventId) ... }
requestLastId(str) == IF str = <<>> THEN Absent ELSE parseInt(str)

\* variant: the missed events are computed but not written
replayOf_Skipped(history, counter, reqId) == <<>>

\* the replay written before the loop
replayOf(history, counter, reqId) ==
    IF reqId.kind = "absent" THEN <<>>
    ELSE framesOf(getMissedEvents(history, counter, reqId))

\* streamToClient up to the first await: headers, replay, then the loop starts.
\* Streams are numbered in the order of their calls.
attach(s, str, allowed) ==
    /\ pc[s] = "idle"
    /\ \A r \in Streams : r < s => pc[r] # "idle"
    /\ LET reqId == requestLastId(str)
       IN  /\ lastId' = [lastId EXCEPT ![s] = reqId]
           /\ allowedEvents' = [allowedEvents EXCEPT ![s] = allowed]
           /\ written' = [written EXCEPT ![s] =
                             replayOf(eventHistory, globalCounter, reqId)]
    /\ pc' = [pc EXCEPT ![s] = "streaming"]
    /\ attachCounter' = [attachCounter EXCEPT ![s] = globalCounter]
    /\ attachHistory' = [attachHistory EXCEPT ![s] = eventHistory]
    /\ UNCHANGED <<maxHistorySize, globalCounter, eventHistory, ended,
                   peerClosed, pulled, outcome, admitted, lastEviction>>

\* a call of streamToClient for a request of any client
Attach(s) ==
    /\ \E str \in RequestIds, allowed \in AllowLists : attach(s, str, allowed)
    /\ UNCHANGED clientVars

\* variant: an 'end' item is written like any other, the loop goes on
PullAllowed_KeepsOpen(s) ==
    /\ pc[s] = "streaming"
    /\ Len(pulled[s]) < MaxItems
    /\ globalCounter < MaxAdmit
    /\ \E t \in EventTypes :
         LET item == [event |-> t]
             event == [event |-> t, data |-> item]
             sseEvent == eventWithId(event, globalCounter)
         IN  /\ t \in allowedEvents[s]
             /\ pulled' = [pulled EXCEPT ![s] = Append(@, item)]
             /\ eventHistory' = sendEvent(eventHistory, globalCounter, event,
                                          maxHistorySize)
             /\ lastEviction' = evictionOf(eventHistory, globalCounter, event,
                                           maxHistorySize, lastEviction)
             /\ globalCounter' = nextCounter(globalCounter)
             /\ admitted' = Append(admitted, sseEvent.id)
             /\ written' = [written EXCEPT ![s] = Append(@, frameOf(sseEvent))]
    /\ UNCHANGED <<maxHistorySize, allowedEvents, lastId, peerClosed, ended,
                   pc, outcome, attachCounter, attachHistory>>
    /\ UNCHANGED clientVars

\* one iteration of the for-await loop on an item of an allowed type; after
\* an 'end' item res.end() is called and the return statement closes the
\* iterator first
PullAllowed(s) ==
    /\ pc[s] = "streaming"
    /\ Len(pulled[s]) < MaxItems
    /\ globalCounter < MaxAdmit
    /\ \E t \in EventTypes :
         LET item == [event |-> t]
             event == [event |-> t, data |-> item]
             sseEvent == eventWithId(event, globalCounter)
         IN  /\ t \in allowedEvents[s]
             /\ pulled' = [pulled EXCEPT ![s] = Append(@, item)]
             /\ eventHistory' = sendEvent(eventHistory, globalCounter, event,
                                          maxHistorySize)
             /\ lastEviction' = evictionOf(eventHistory, globalCounter, event,
                                           maxHistorySize, lastEviction)
             /\ globalCounter' = nextCounter(globalCounter)
             /\ admitted' = Append(admitted, sseEvent.id)
             /\ written' = [written EXCEPT ![s] = Append(@, frameOf(sseEvent))]
             /\ IF t = "end"
                THEN /\ ended' = [ended EXCEPT ![s] = TRUE]
                     /\ pc' = [pc EXCEPT ![s] = "returning"]
                     /\ outcome' = [outcome EXCEPT ![s] = "end"]
                ELSE UNCHANGED <<ended, pc, outcome>>
    /\ UNCHANGED <<maxHistorySize, allowedEvents, lastId, peerClosed,
                   attachCounter, attachHistory>>
    /\ UNCHANGED clientVars

\* variant: an item whose type is not allowed is skipped
PullDisallowed_Skips(s) ==
    /\ pc[s] = "streaming"
    /\ Len(pulled[s]) < MaxItems
    /\ \E t \in EventTypes :
         /\ t \notin allowedEvents[s]
         /\ pulled' = [pulled EXCEPT ![s] = Append(@, [event |-> t])]
    /\ UNCHANGED <<maxHistorySize, globalCounter, eventHistory, allowedEvents,
                   lastId, written, ended, pc, outcome, peerClosed, admitted,
                   lastEviction, attachCounter, attachHistory>>
    /\ UNCHANGED clientVars

\* variant: an item whose type is not allowed ends every streaming call
PullDisallowed_EndsAll(s) ==
    /\ pc[s] = "streaming"
    /\ Len(pulled[s]) < MaxItems
    /\ \E t \in EventTypes :
         /\ t \notin allowedEvents[s]
         /\ pulled' = [pulled EXCEPT ![s] = Append(@, [event |-> t])]
    /\ ended' = [r \in Streams |-> ended[r] \/ pc[r] = "streaming"]
    /\ pc' = [r \in Streams |-> IF pc[r] = "streaming" THEN "returning" ELSE pc[r]]
    /\ outcome' = [outcome EXCEPT ![s] = "disallowed"]
    /\ UNCHANGED <<maxHistorySize, globalCounter, eventHistory, allowedEvents,
                   lastId, written, peerClosed, admitted, lastEviction,
                   attachCounter, attachHistory>>
    /\ UNCHANGED clientVars

\* variant: the rejected item takes a sequence id before the loop is left
PullDisallowed_ConsumesId(s) ==
    /\ pc[s] = "streaming"
    /\ Len(pulled[s]) < MaxItems
    /\ \E t \in EventTypes :
         /\ t \notin allowedEvents[s]
         /\ pulled' = [pulled EXCEPT ![s] = Append(@, [event |-> t])]
    /\ ended' = [ended EXCEPT ![s] = TRUE]
    /\ pc' = [pc EXCEPT ![s] = "returning"]
    /\ outcome' = [outcome EXCEPT ![s] = "disallowed"]
    /\ globalCounter < MaxAdmit
    /\ globalCounter' = nextCounter(globalCounter)
    /\ UNCHANGED <<maxHistorySize, eventHistory, allowedEvents,
                   lastId, written, peerClosed, admitted, lastEviction,
                   attachCounter, attachHistory>>
    /\ UNCHANGED clientVars

\* one iteration on an item whose type is not allowed: res.end(), then the
\* return statement closes the iterator first
PullDisallowed(s) ==
    /\ pc[s] = "streaming"
    /\ Len(pulled[s]) < MaxItems
    /\ \E t \in EventTypes :
         /\ t \notin allowedEvents[s]
         /\ pulled' = [pulled EXCEPT ![s] = Append(@, [event |-> t])]
    /\ ended' = [ended EXCEPT ![s] = TRUE]
    /\ pc' = [pc EXCEPT ![s] = "returning"]
    /\ outcome' = [outcome EXCEPT ![s] = "disallowed"]
    /\ UNCHANGED <<maxHistorySize, globalCounter, eventHistory, allowedEvents,
                   lastId, written, peerClosed, admitted, lastEviction,
                   attachCounter, attachHistory>>
    /\ UNCHANGED clientVars

\* the source is exhausted: the loop ends and the trailing res.end() runs
SourceExhausted(s) ==
    /\ pc[s] = "streaming"
    /\ ended' = [ended EXCEPT ![s] = TRUE]
    /\ pc' = [pc EXCEPT ![s] = "returned"]
    /\ outcome' = [outcome EXCEPT ![s] = "exhausted"]
    /\ UNCHANGED <<maxHistorySize, globalCounter, eventHistory, allowedEvents,
                   lastId, written, peerClosed, pulled, admitted, lastEviction,
                   attachCounter, attachHistory>>
    /\ UNCHANGED clientVars

\* variant: the catch block returns without res.end()
SourceError_LeavesOpen(s) ==
    /\ pc[s] = "streaming"
    /\ pc' = [pc EXCEPT ![s] = "returned"]
    /\ outcome' = [outcome EXCEPT ![s] = "error"]
    /\ UNCHANGED <<maxHistorySize, globalCounter, eventHistory, allowedEvents,
                   lastId, written, ended, peerClosed, pulled, admitted,
                   lastEviction, attachCounter, attachHistory>>
    /\ UNCHANGED clientVars

\* the source raises: catch (error) { res.end(); return; }
SourceError(s) ==
    /\ pc[s] = "streaming"
    /\ ended' = [ended EXCEPT ![s] = TRUE]
    /\ pc' = [pc EXCEPT ![s] = "returned"]
    /\ outcome' = [outcome EXCEPT ![s] = "error"]
    /\ UNCHANGED <<maxHistorySize, globalCounter, eventHistory, allowedEvents,
                   lastId, written, peerClosed, pulled, admitted, lastEviction,
                   attachCounter, attachHistory>>
    /\ UNCHANGED clientVars

\* the remote peer closes the connection; streamToClient registers no
\* handler for it, so nothing of the adapter's state changes
PeerClose(s) ==
    /\ pc[s] = "streaming"
    /\ ~peerClosed[s]
    /\ peerClosed' = [peerClosed EXCEPT ![s] = TRUE]
    /\ UNCHANGED <<maxHistorySize, globalCounter, eventHistory, pc,
                   allowedEvents, lastId, written, ended, pulled, outcome,
                   admitted, lastEviction, attachCounter, attachHistory>>
    /\ UNCHANGED clientVars

\* the promise of iterator.return(), awaited by the return statement inside
\* the loop, settles: the call returns (through the catch block, with a
\* second res.end(), when it rejects). It may never settle.
IteratorReturn(s) ==
    /\ pc[s] = "returning"
    /\ pc' = [pc EXCEPT ![s] = "returned"]
    /\ UNCHANGED <<maxHistorySize, globalCounter, eventHistory, allowedEvents,
                   lastId, written, ended, peerClosed, pulled, outcome,
                   admitted, lastEviction, attachCounter, attachHistory>>
    /\ UNCHANGED clientVars

NoEviction == [some |-> FALSE, key |-> 0, before |-> {}]

ServerInit ==
    /\ maxHistorySize \in 1..MaxHistoryCfg
    /\ globalCounter = 0
    /\ eventHistory = EmptyMap
    /\ pc = [s \in Streams |-> "idle"]
    /\ allowedEvents = [s \in Streams |-> {}]
    /\ lastId = [s \in Streams |-> Absent]
    /\ written = [s \in Streams |-> <<>>]
    /\ ended = [s \in Streams |-> FALSE]
    /\ peerClosed = [s \in Streams |-> FALSE]
    /\ pulled = [s \in Streams |-> <<>>]
    /\ outcome = [s \in Streams |-> "none"]
    /\ admitted = <<>>
    /\ lastEviction = NoEviction
    /\ attachCounter = [s \in Streams |-> 0]
    /\ attachHistory = [s \in Streams |-> EmptyMap]

StreamStep(s) ==
    \/ PullAllowed(s)
    \/ PullDisallowed(s)
    \/ SourceExhausted(s)
    \/ SourceError(s)

ServerNext ==
    \E s \in Streams :
        \/ Attach(s)
        \/ StreamStep(s)
        \/ IteratorReturn(s)
        \/ PeerClose(s)

(***************************************************************************)
(* Properties of the history store and the stream adapter.                 *)
(***************************************************************************)
AttachedStreams == {s \in Streams : pc[s] # "idle"}

\* the set S of ids listed in ascending order
RECURSIVE Ascending(_)
Ascending(S) ==
    IF S = {} THEN <<>>
    ELSE LET least == CHOOSE k \in S : \A j \in S : k <= j
         IN  <<least>> \o Ascending(S \ {least})

\* the ids of a sequence of events or frames
IdsOf(seq) == [i \in 1..Len(seq) |-> seq[i].id]

\* the allowed items among the first n a source has yielded
AllowedAmong(s, n) == {i \in 1..n : pulled[s][i].event \in allowedEvents[s]}

\* the frames of a stream that follow its replay
NewFrames(s) ==
    LET replayed == Len(replayOf(attachHistory[s], attachCounter[s], lastId[s]))
    IN  SubSeq(written[s], replayed + 1, Len(written[s]))

\* C1: the ids sendEvent assigns, in admission order over all streams, start
\* at 1, increase strictly, and none is assigned twice.
C1_SequenceIdsIncrease ==
    /\ Len(admitted) > 0 => admitted[1] = 1
    /\ \A i, j \in 1..Len(admitted) : i < j => admitted[i] < admitted[j]
    /\ Cardinality({admitted[i] : i \in 1..Len(admitted)}) = Len(admitted)

\* C1 witness: two streams, both streaming, have admitted events in turn.
C1_Witness ==
    /\ Len(admitted) >= 3
    /\ \A s \in Streams : Len(pulled[s]) >= 1 /\ AllowedAmong(s, 1) # {}
    /\ \E f \in 1..Len(written[1]) :
         \E g \in 1..Len(written[2]) :
           \E h \in 1..Len(written[1]) :
             written[1][f].id < written[2][g].id
             /\ written[2][g].id < written[1][h].id
             /\ written[2][g].id > attachCounter[2]

\* C2: the history never holds more than maxHistorySize entries, and an
\* eviction removes the smallest id present just before the removal.
C2_WindowBounded ==
    /\ Cardinality(DOMAIN eventHistory) <= maxHistorySize
    /\ lastEviction.some =>
         /\ lastEviction.key \in lastEviction.before
         /\ \A k \in lastEviction.before : lastEviction.key <= k
         /\ lastEviction.key \notin DOMAIN eventHistory

\* C2 witness: an eviction chose among several entries.
C2_Witness ==
    /\ lastEviction.some
    /\ Cardinality(lastEviction.before) = 3
    /\ Cardinality(DOMAIN eventHistory) = 2

\* C3: for every integer x, getMissedEvents(x) lists exactly the retained
\* events with id > x in ascending id order, and nothing when x is at or
\* beyond the counter.
C3_MissedSince ==
    \A x \in (0 - 2)..(globalCounter + 2) :
        LET missed == getMissedEvents(eventHistory, globalCounter, Num(x))
            retained == {k \in DOMAIN eventHistory : k > x}
        IN  /\ Len(missed) = Cardinality(retained)
            /\ \A i \in 1..Len(missed) :
                 /\ missed[i].id \in retained
                 /\ missed[i] = eventHistory[missed[i].id]
            /\ \A i, j \in 1..Len(missed) : i < j => missed[i].id < missed[j].id
            /\ x >= globalCounter => missed = <<>>

\* C3 witness: ids 1,2,3 admitted with room for two; the replay since 0
\* lists 2 and 3 and omits the evicted 1.
C3_Witness ==
    /\ globalCounter = 3
    /\ DOMAIN eventHistory = {2, 3}
    /\ IdsOf(getMissedEvents(eventHistory, globalCounter, Num(0))) = <<2, 3>>
    /\ getMissedEvents(eventHistory, globalCounter, Num(3)) = <<>>

\* C4: a stream attached with resumption id c has written, first, the events
\* retained at attach time with id > c in ascending order, and after them
\* only events admitted for its own pulled items; a stream attached with no
\* resumption id has written only events admitted after it attached.
C4_ReplayBeforeNew ==
    \A s \in AttachedStreams :
        LET backlog == IF lastId[s].kind = "int"
                       THEN Ascending({k \in DOMAIN attachHistory[s] :
                                          k > lastId[s].val})
                       ELSE <<>>
            n == Len(backlog)
        IN  lastId[s].kind \in {"int", "absent"} =>
              /\ Len(written[s]) = n + Cardinality(AllowedAmong(s, Len(pulled[s])))
              /\ \A i \in 1..n :
                   written[s][i] = frameOf(attachHistory[s][backlog[i]])
              /\ \A i \in (n + 1)..Len(written[s]) :
                   written[s][i].id > attachCounter[s]

\* C4 witness: the history holds 2 and 3 of three admitted events; a stream
\* that attached with resumption id 1 wrote 2, 3 and then its own event 4.
C4_Witness ==
    \E s \in Streams :
        /\ maxHistorySize = 2
        /\ attachCounter[s] = 3
        /\ lastId[s] = Num(1)
        /\ IdsOf(written[s]) = <<2, 3, 4>>
        /\ Len(pulled[s]) = 1

\* C5: an item of a type that is not allowed ends the stream at once: it is
\* the last item pulled, the loop has been left, it is not written, the
\* frames written for the source are those of the items before it, and the
\* transport is closed (whether or not the call has returned yet).
C5_DisallowedTerminates ==
    \A s \in AttachedStreams :
        \A i \in 1..Len(pulled[s]) :
            pulled[s][i].event \notin allowedEvents[s] =>
              /\ i = Len(pulled[s])
              /\ pc[s] \in {"returning", "returned"}
              /\ ended[s]
              /\ Len(NewFrames(s)) = i - 1
              /\ \A k \in 1..(i - 1) : NewFrames(s)[k].data = pulled[s][k]

\* C5 witness: allowedEvents message/end, source message, message, custom:
\* two frames written, transport closed, iterator.return() not yet settled.
C5_Witness ==
    \E s \in Streams :
        /\ allowedEvents[s] = {"message", "end"}
        /\ pulled[s] = <<[event |-> "message"], [event |-> "message"],
                         [event |-> "custom"]>>
        /\ Len(written[s]) = 2
        /\ ended[s]
        /\ pc[s] = "returning"

\* C6: an allowed item of type 'end' is admitted and written, the transport
\* is closed, the loop has been left and it is the last item pulled from the
\* source (whether or not the call has returned yet).
C6_EndTerminates ==
    \A s \in AttachedStreams :
        \A i \in 1..Len(pulled[s]) :
            (pulled[s][i].event = "end" /\ "end" \in allowedEvents[s]) =>
              /\ i = Len(pulled[s])
              /\ pc[s] \in {"returning", "returned"}
              /\ ended[s]
              /\ Len(NewFrames(s)) = i
              /\ NewFrames(s)[i].data = pulled[s][i]
              /\ \E a \in 1..Len(admitted) : admitted[a] = NewFrames(s)[i].id

\* C6 witness: the source yielded message, end and could yield more; the
\* transport is closed with the 'end' frame written last, and the call waits
\* for iterator.return().
C6_Witness ==
    \E s \in Streams :
        /\ pulled[s] = <<[event |-> "message"], [event |-> "end"]>>
        /\ Len(pulled[s]) < MaxItems
        /\ outcome[s] = "end"
        /\ ended[s]
        /\ pc[s] = "returning"
        /\ written[s][Len(written[s])].data = [event |-> "end"]

\* C7: once the remote peer has closed the transport of a stream, no
\* further item is pulled from its source (so none is admitted for it).
C7_StopsOnPeerClose ==
    [][\A s \in Streams : peerClosed[s] => pulled'[s] = pulled[s]]_vars

\* C8: every attached stream eventually has its transport closed by the
\* adapter (the sources of the model are finite or raise), and a call whose
\* source was exhausted without a terminal event or raised an error has
\* ended the transport and returned.
C8_EventuallyClosed ==
    /\ \A s \in Streams : (pc[s] = "streaming") ~> ended[s]
    /\ [](\A s \in Streams :
             outcome[s] \in {"exhausted", "error"}
                 => ended[s] /\ pc[s] = "returned")

\* C8 witness: one stream returned on a source error, another on exhaustion
\* without a terminal event, both with the transport closed.
C8_Witness ==
    \E s, r \in Streams :
        /\ outcome[s] = "error" /\ ended[s] /\ pc[s] = "returned"
        /\ outcome[r] = "exhausted" /\ ended[r] /\ pc[r] = "returned"
        /\ \A i \in 1..Len(pulled[r]) : pulled[r][i].event = "message"
        /\ Len(pulled[r]) >= 1

\* the step in which stream s leaves its loop on an item of a disallowed type
Rejects(s) == outcome[s] = "none" /\ outcome'[s] = "disallowed"

\* C22: an item of a disallowed type ends the stream that pulled it and no
\* other: the step leaves every other stream's call, transport and frames as
\* they were, and a stream that is still in its loop next to a rejected one
\* has its transport open and can pull, admit and write its next allowed item.
C22_RejectionIsLocal ==
    /\ [][\A s \in Streams : Rejects(s) =>
             \A r \in Streams \ {s} :
                 /\ pc'[r] = pc[r]
                 /\ ended'[r] = ended[r]
                 /\ written'[r] = written[r]
                 /\ outcome'[r] = outcome[r]]_vars
    /\ [](\A s, r \in Streams :
             (/\ outcome[s] = "disallowed"
              /\ pc[r] = "streaming"
              /\ Len(pulled[r]) < MaxItems
              /\ globalCounter < MaxAdmit)
                 => (~ended[r] /\ ENABLED PullAllowed(r)))

\* stream 1 was ended by a disallowed item, its only one; stream 2 has pulled
\* two allowed items, written their frames and is still in its loop
C22_Witness ==
    /\ outcome[1] = "disallowed" /\ Len(pulled[1]) = 1
    /\ pc[2] = "streaming" /\ ~ended[2]
    /\ Len(pulled[2]) = 2 /\ Len(NewFrames(2)) = 2

\* C24: the retained ids are exactly the most recent min(counter,
\* maxHistorySize) ids, counter - size + 1 .. counter: the window has no gap
\* but the evicted prefix.
C24_WindowContiguous ==
    LET size == IF globalCounter <= maxHistorySize
                THEN globalCounter ELSE maxHistorySize
    IN  DOMAIN eventHistory = (globalCounter - size + 1)..globalCounter

\* four events admitted into a window of two: ids 3 and 4 are retained
C24_Witness ==
    /\ maxHistorySize = 2
    /\ globalCounter = 4
    /\ DOMAIN eventHistory = {3, 4}
    /\ lastEviction.some /\ lastEviction.key = 2

\* the step in which stream s pulls an item of a type it allows
Admits(s) ==
    /\ Len(pulled'[s]) = Len(pulled[s]) + 1
    /\ pulled'[s][Len(pulled'[s])].event \in allowedEvents[s]

\* C25: the counter and the window change only in a step that admits an
\* allowed item, and then the counter grows by one: writing a replay on
\* attach and rejecting a disallowed item leave both as they were.
C25_OnlyAdmissionMutates ==
    [][/\ (globalCounter' # globalCounter \/ eventHistory' # eventHistory)
            => (globalCounter' = globalCounter + 1 /\ \E s \in Streams : Admits(s))
       /\ \A s \in Streams :
            ((pc[s] = "idle" /\ pc'[s] = "streaming") \/ Rejects(s))
                => UNCHANGED <<globalCounter, eventHistory, admitted>>]_vars

\* one stream admitted two items and was then ended by a disallowed one, the
\* other has attached and written a replay only: two ids were consumed
C25_Witness ==
    \E s, r \in Streams :
        /\ outcome[s] = "disallowed" /\ Len(pulled[s]) = 3
        /\ written[r] # <<>> /\ NewFrames(r) = <<>> /\ pulled[r] = <<>>
        /\ globalCounter = 2

\* the event type a frame carries in its data
TypeOf(written_frame) == written_frame.data.event

\* C26: every frame written to a stream's transport, replayed or new, carries
\* an event type of that stream's allowlist.
C26_OnlyAllowedTypesWritten ==
    \A s \in AttachedStreams :
        \A i \in 1..Len(written[s]) : TypeOf(written[s][i]) \in allowedEvents[s]

\* C27: a frame of type 'end' is the last frame of its transport, and the
\* transport is closed once it is written.
C27_NothingAfterEnd ==
    \A s \in AttachedStreams :
        \A i \in 1..Len(written[s]) :
            TypeOf(written[s][i]) = "end" => (i = Len(written[s]) /\ ended[s])

\* C28: the ids of the frames written to one transport increase strictly
\* from first to last, over the replay and the new events alike.
C28_FrameIdsIncrease ==
    \A s \in AttachedStreams :
        \A i, j \in 1..Len(written[s]) :
            i < j => written[s][i].id < written[s][j].id

\* stream 2 attached with resumption id 1 and replayed 2; stream 1 then
\* admitted 3, and stream 2 admitted 4 after it
C28_Witness ==
    /\ lastId[2] = Num(1)
    /\ IdsOf(written[2]) = <<2, 4>>
    /\ attachCounter[2] = 2
    /\ \E i \in 1..Len(written[1]) : written[1][i].id = 3

(***************************************************************************)
(* SSEClient.                                                              *)
(***************************************************************************)
\* variant: one attempt more than configured
maxRetries_OneMore(option) ==
    IF option.kind = "absent" THEN DefaultMaxRetryAttempts + 1 ELSE option.val + 1

\* this.options.maxRetryAttempts ?? 10
maxRetries(option) ==
    IF option.kind = "absent" THEN DefaultMaxRetryAttempts ELSE option.val

\* Math.pow(2, n)
RECURSIVE Pow2(_)
Pow2(n) == IF n = 0 THEN 1 ELSE 2 * Pow2(n - 1)

\* Math.min(a, b)
Min(a, b) == IF a <= b THEN a ELSE b

\* const base = this.options.reconnectInterval || 3000: undefined and 0 are
\* falsy and give the default
reconnectBase(option) ==
    IF option.kind = "absent" \/ option.val = 0
    THEN DefaultReconnectInterval ELSE option.val

\* expDelay = Math.min(base * Math.pow(2, this.reconnectAttempts - 1), maxDelay)
expDelay(base, attempts) == Min(base * Pow2(attempts - 1), MaxDelay)

\* Math.random(): a number in [0, 1), here the numerator over RandomDenominator
RandomNumerators == {0, RandomDenominator \div 2, RandomDenominator - 1}

\* delay = Math.floor(Math.random() * expDelay), as the old build computed
\* it: the jitter is added to the exponential delay
delayOf_AddedJitter(base, attempts, random) ==
    expDelay(base, attempts) + (random * 1000) \div RandomDenominator

\* jitter = Math.random() * expDelay; delay = Math.floor(jitter)
delayOf(base, attempts, random) ==
    (random * expDelay(base, attempts)) \div RandomDenominator

\* retryLimitExceeded()
retryLimitExceeded(attempts, option) == attempts >= maxRetries(option)

\* stopHeartbeat(): the intervals left running
stopHeartbeat(timerSet, running) == IF timerSet THEN running - 1 ELSE running

\* the EventSource has an open request or connection (readyState 0 or 1)
Live(es) == es \in {"CONNECTING", "OPEN"}

\* the keys the application registers handlers under
ListenerTypes == {"message", "ping"}
HandlerIds == 1..NHandlers
NoHandler == 0

\* event.data of the frames received
UnparsableText == "plain text"
Payloads ==
    {"{\"event\":\"message\"}", "{\"event\":\"end\"}", "{}", UnparsableText}

\* JavaScript values handed to handlers: an object with its event property
\* (undefined when it has none), or a string
undefined == "(undefined)"
Object(event) == [kind |-> "object", event |-> event, text |-> ""]
String(text) == [kind |-> "string", event |-> undefined, text |-> text]
Timestamp == [kind |-> "timestamp", event |-> undefined, text |-> ""]

\* JSON.parse(data) on the payloads above: the value, or a thrown SyntaxError
JSONparse(data) ==
    CASE data = "{\"event\":\"message\"}" -> [ok |-> TRUE, value |-> Object("message")]
      [] data = "{\"event\":\"end\"}" -> [ok |-> TRUE, value |-> Object("end")]
      [] data = "{\"event\":\"custom\"}" -> [ok |-> TRUE, value |-> Object("custom")]
      [] data = "{}" -> [ok |-> TRUE, value |-> Object(undefined)]
      [] OTHER -> [ok |-> FALSE, value |-> String("SyntaxError")]

\* safeJsonParse(data): the parsed value, or data itself when parsing throws
safeJsonParse(data) ==
    IF JSONparse(data).ok THEN JSONparse(data).value ELSE String(data)

\* parsedData.event: a string has no such property
eventTypeOf(parsedData) == parsedData.event

\* const handler = registry.get(type); if (handler) handler(arg)
invoke(registry, type, arg) ==
    IF type \in DOMAIN registry /\ registry[type] # NoHandler
    THEN <<[handler |-> registry[type], type |-> type, arg |-> arg]>>
    ELSE <<>>

\* an item of localStorage, or a string that may be undefined
NoItem == [has |-> FALSE, value |-> <<>>]
Item(value) == [has |-> TRUE, value |-> value]

\* event.lastEventId of the frames received: strings over a character that
\* encodeURIComponent keeps and one that it escapes
CursorChars == {"1", "&"}
Reserved == {"&"}
FrameIds == UNION {[1..n -> CursorChars] : n \in 0..MaxCursorLen}

\* saveLastEventId(id): try { localStorage.setItem(this.lastEventIdKey, id) }
\* catch {}: a setItem that throws leaves the item as it was
saveLastEventId(item, id, throws) == IF throws THEN item ELSE Item(id)

\* loadLastEventId(): localStorage.getItem(this.lastEventIdKey) || undefined,
\* and undefined when getItem throws
loadLastEventId(item, throws) ==
    IF ~throws /\ item.has /\ item.value # <<>> THEN Item(item.value) ELSE NoItem

\* the escape sequence of a reserved character
PercentCode(c) == <<"%", "2", "6">>

\* encodeURIComponent that escapes nothing
encodeURIComponent_Raw(str) == str

\* encodeURIComponent(str)
RECURSIVE encodeURIComponent(_)
encodeURIComponent(str) ==
    IF str = <<>> THEN <<>>
    ELSE (IF Head(str) \in Reserved THEN PercentCode(Head(str)) ELSE <<Head(str)>>)
         \o encodeURIComponent(Tail(str))

\* the lastEventId parameter of urlWithParams: none when nothing was loaded
urlParam(loaded) ==
    IF loaded.has THEN Item(encodeURIComponent(loaded.value)) ELSE NoItem

\* req.query.lastEventId as the server reads it: the parameter ends at the
\* first "&", and its escape sequences are decoded
RECURSIVE queryValue(_)
queryValue(param) ==
    IF param = <<>> \/ Head(param) = "&" THEN <<>>
    ELSE IF Head(param) = "%" /\ Len(param) >= 3
    THEN <<CHOOSE c \in Reserved : PercentCode(c) = SubSeq(param, 1, 3)>>
         \o queryValue(SubSeq(param, 4, Len(param)))
    ELSE <<Head(param)>> \o queryValue(Tail(param))


\* connect() as the old build has it: the previous EventSource is not closed
connect_KeepsOld ==
    /\ isClosed' = FALSE
    /\ eventSource' = "CONNECTING"
    /\ unclosed' = unclosed + 1
    /\ \E getItemThrows \in BOOLEAN :
          /\ request' = urlParam(loadLastEventId(storage, getItemThrows))
          /\ storageThrew' = getItemThrows
    /\ transport' = 0
    /\ consumed' = 0
    /\ esLastId' = <<>>

\* connect(): isClosed = false; close and drop the old EventSource; read the
\* stored id; open a new EventSource and register the handlers
connect ==
    /\ isClosed' = FALSE
    /\ eventSource' = "CONNECTING"
    /\ unclosed' = (IF Live(eventSource) THEN unclosed - 1 ELSE unclosed) + 1
    /\ \E getItemThrows \in BOOLEAN :
          /\ request' = urlParam(loadLastEventId(storage, getItemThrows))
          /\ storageThrew' = getItemThrows
    /\ transport' = 0
    /\ consumed' = 0
    /\ esLastId' = <<>>

\* the application calls connect()
Connect ==
    /\ connect
    /\ calls' = <<>>
    /\ UNCHANGED <<maxRetryAttempts, heartbeatInterval, storage, lastSeenId, listeners, reconnectInterval, closedTimers, reconnectAttempts,
                   heartbeatTimer, timers, intervals, budgetExhausted,
                   exceededCalls>>
    /\ scheduledDelay' = Absent
    /\ NoDispatch
    /\ reconnected' = NoReconnect
    /\ timerConnected' = FALSE
    /\ UNCHANGED serverVars

\* the application calls close()
Close ==
    /\ isClosed' = TRUE
    /\ closedTimers' = timers
    /\ IF eventSource # "null"
       THEN /\ eventSource' = "null"
            /\ unclosed' = IF Live(eventSource) THEN unclosed - 1 ELSE unclosed
            /\ intervals' = stopHeartbeat(heartbeatTimer, intervals)
            /\ heartbeatTimer' = FALSE
            /\ transport' = 0
            /\ consumed' = 0
            /\ esLastId' = <<>>
       ELSE UNCHANGED <<eventSource, intervals, heartbeatTimer, unclosed,
                        transport, consumed, esLastId>>
    /\ UNCHANGED request
    /\ calls' = <<>>
    /\ UNCHANGED <<maxRetryAttempts, heartbeatInterval, storage, lastSeenId, listeners, reconnectInterval, reconnectAttempts,
                   timers, budgetExhausted, exceededCalls>>
    /\ scheduledDelay' = Absent
    /\ NoDispatch
    /\ reconnected' = NoReconnect
    /\ timerConnected' = FALSE
    /\ UNCHANGED serverVars
    /\ storageThrew' = FALSE

\* reconnect() without the reset of the attempt counter
Reconnect_KeepsAttempts ==
    /\ UNCHANGED reconnectAttempts
    /\ connect
    /\ calls' = <<>>
    /\ budgetExhausted' = FALSE
    /\ exceededCalls' = 0
    /\ UNCHANGED <<maxRetryAttempts, heartbeatInterval, storage, lastSeenId, listeners, reconnectInterval, closedTimers, heartbeatTimer, timers,
                   intervals>>
    /\ scheduledDelay' = Absent
    /\ NoDispatch
    /\ reconnected' = [some |-> TRUE, attempts |-> reconnectAttempts,
                        isClosed |-> isClosed, exhausted |-> budgetExhausted]
    /\ timerConnected' = FALSE
    /\ UNCHANGED serverVars

\* the application calls reconnect()
Reconnect ==
    /\ reconnectAttempts' = 0
    /\ connect
    /\ calls' = <<>>
    /\ budgetExhausted' = FALSE
    /\ exceededCalls' = 0
    /\ UNCHANGED <<maxRetryAttempts, heartbeatInterval, storage, lastSeenId, listeners, reconnectInterval, closedTimers, heartbeatTimer, timers,
                   intervals>>
    /\ scheduledDelay' = Absent
    /\ NoDispatch
    /\ reconnected' = [some |-> TRUE, attempts |-> reconnectAttempts,
                        isClosed |-> isClosed, exhausted |-> budgetExhausted]
    /\ timerConnected' = FALSE
    /\ UNCHANGED serverVars

\* onopen without the reset of the attempt counter
OnOpen_KeepsAttempts ==
    /\ eventSource = "CONNECTING"
    /\ heartbeatInterval => intervals < MaxIntervals
    /\ eventSource' = "OPEN"
    /\ UNCHANGED reconnectAttempts
    /\ calls' = <<"onOpen">>
    /\ IF heartbeatInterval
       THEN /\ heartbeatTimer' = TRUE
            /\ intervals' = intervals + 1
       ELSE UNCHANGED <<heartbeatTimer, intervals>>
    /\ budgetExhausted' = FALSE
    /\ exceededCalls' = 0
    /\ UNCHANGED <<maxRetryAttempts, heartbeatInterval, transport, consumed, esLastId, request, storage, lastSeenId, listeners, unclosed, reconnectInterval, closedTimers, isClosed, timers>>
    /\ scheduledDelay' = Absent
    /\ NoDispatch
    /\ reconnected' = NoReconnect
    /\ timerConnected' = FALSE
    /\ UNCHANGED serverVars
    /\ storageThrew' = FALSE

\* eventSource.onopen
OnOpen ==
    /\ eventSource = "CONNECTING"
    /\ heartbeatInterval => intervals < MaxIntervals
    /\ eventSource' = "OPEN"
    /\ reconnectAttempts' = 0
    /\ calls' = <<"onOpen">>
    /\ IF heartbeatInterval
       THEN /\ heartbeatTimer' = TRUE
            /\ intervals' = intervals + 1
       ELSE UNCHANGED <<heartbeatTimer, intervals>>
    /\ budgetExhausted' = FALSE
    /\ exceededCalls' = 0
    /\ UNCHANGED <<maxRetryAttempts, heartbeatInterval, transport, consumed, esLastId, request, storage, lastSeenId, listeners, unclosed, reconnectInterval, closedTimers, isClosed, timers>>
    /\ scheduledDelay' = Absent
    /\ NoDispatch
    /\ reconnected' = NoReconnect
    /\ timerConnected' = FALSE
    /\ UNCHANGED serverVars
    /\ storageThrew' = FALSE

\* eventSource.onerror; the browser either re-establishes the connection by
\* itself (readyState CONNECTING) or fails it (readyState CLOSED).
\* tryReconnect is inlined: it returns at once when isClosed, reports the
\* exhaustion when the limit is reached, and else counts and schedules.
OnError ==
    /\ Live(eventSource)
    /\ \E after \in {"CONNECTING", "CLOSED"} : eventSource' = after
    /\ unclosed' = IF eventSource' = "CLOSED" THEN unclosed - 1 ELSE unclosed
    /\ transport' = 0
    /\ consumed' = 0
    /\ UNCHANGED esLastId
    /\ intervals' = stopHeartbeat(heartbeatTimer, intervals)
    /\ heartbeatTimer' = FALSE
    /\ IF retryLimitExceeded(reconnectAttempts, maxRetryAttempts)
       THEN /\ calls' = <<"onError">>
            /\ budgetExhausted' = TRUE
            /\ scheduledDelay' = Absent
            /\ UNCHANGED <<reconnectAttempts, timers, exceededCalls>>
       ELSE IF isClosed
       THEN /\ calls' = <<"onError">>
            /\ scheduledDelay' = Absent
            /\ UNCHANGED <<reconnectAttempts, timers, budgetExhausted,
                           exceededCalls>>
       ELSE IF reconnectAttempts >= maxRetries(maxRetryAttempts)
       THEN /\ calls' = <<"onError", "onMaxRetriesExceeded">>
            /\ exceededCalls' = exceededCalls + 1
            /\ scheduledDelay' = Absent
            /\ budgetExhausted' = TRUE
            /\ UNCHANGED <<reconnectAttempts, timers>>
       ELSE /\ timers < MaxTimers
            /\ reconnectAttempts' = reconnectAttempts + 1
            /\ calls' = <<"onError", "onReconnectAttempt">>
            /\ timers' = timers + 1
            /\ \E random \in RandomNumerators :
                  scheduledDelay' =
                      Num(delayOf(reconnectBase(reconnectInterval),
                                  reconnectAttempts + 1, random))
            /\ UNCHANGED <<budgetExhausted, exceededCalls>>
    /\ UNCHANGED <<maxRetryAttempts, heartbeatInterval, request, storage, lastSeenId, listeners, reconnectInterval, closedTimers, isClosed>>
    /\ NoDispatch
    /\ reconnected' = NoReconnect
    /\ timerConnected' = FALSE
    /\ UNCHANGED serverVars
    /\ storageThrew' = FALSE

\* a timer callback that does nothing
TimerFires_Drops ==
    /\ timers > 0
    /\ timers' = timers - 1
    /\ \E fromBeforeClose \in BOOLEAN :
          /\ IF fromBeforeClose THEN closedTimers > 0 ELSE timers > closedTimers
          /\ closedTimers' = IF fromBeforeClose THEN closedTimers - 1 ELSE closedTimers
    /\ UNCHANGED <<isClosed, eventSource, unclosed, request>>
    /\ timerConnected' = FALSE
    /\ calls' = <<>>
    /\ UNCHANGED <<maxRetryAttempts, heartbeatInterval, transport, consumed, esLastId, storage, lastSeenId, listeners, reconnectInterval, reconnectAttempts,
                   heartbeatTimer, intervals, budgetExhausted, exceededCalls>>
    /\ scheduledDelay' = Absent
    /\ NoDispatch
    /\ reconnected' = NoReconnect
    /\ UNCHANGED serverVars
    /\ storageThrew' = FALSE

\* a timer of tryReconnect fires: if (!this.isClosed) this.connect()
TimerFires ==
    /\ timers > 0
    /\ timers' = timers - 1
    /\ \E fromBeforeClose \in BOOLEAN :
          /\ IF fromBeforeClose THEN closedTimers > 0 ELSE timers > closedTimers
          /\ closedTimers' = IF fromBeforeClose THEN closedTimers - 1 ELSE closedTimers
    /\ IF ~isClosed
       THEN connect
       ELSE /\ UNCHANGED <<isClosed, eventSource, unclosed, request,
                         transport, consumed, esLastId>>
            /\ storageThrew' = FALSE
    /\ timerConnected' = ~isClosed
    /\ calls' = <<>>
    /\ UNCHANGED <<maxRetryAttempts, heartbeatInterval, storage, lastSeenId, listeners, reconnectInterval, reconnectAttempts,
                   heartbeatTimer, intervals, budgetExhausted, exceededCalls>>
    /\ scheduledDelay' = Absent
    /\ NoDispatch
    /\ reconnected' = NoReconnect
    /\ UNCHANGED serverVars

\* on(event, handler) that keeps the handler already registered for the type
On_KeepsFirst(event, handler) ==
    /\ listeners' = IF listeners[event] = NoHandler
                    THEN [listeners EXCEPT ![event] = handler] ELSE listeners
    /\ calls' = <<>>
    /\ NoDispatch
    /\ scheduledDelay' = Absent
    /\ UNCHANGED <<maxRetryAttempts, heartbeatInterval, reconnectInterval,
                   eventSource, reconnectAttempts, isClosed, heartbeatTimer,
                   timers, intervals, budgetExhausted, exceededCalls,
                   closedTimers, unclosed, storage, request, lastSeenId,
                   transport, consumed, esLastId>>
    /\ reconnected' = NoReconnect
    /\ timerConnected' = FALSE
    /\ UNCHANGED serverVars
    /\ storageThrew' = FALSE

\* on(event, handler): this.listeners.set(event, handler)
On(event, handler) ==
    /\ listeners' = [listeners EXCEPT ![event] = handler]
    /\ calls' = <<>>
    /\ NoDispatch
    /\ scheduledDelay' = Absent
    /\ UNCHANGED <<maxRetryAttempts, heartbeatInterval, reconnectInterval,
                   eventSource, reconnectAttempts, isClosed, heartbeatTimer,
                   timers, intervals, budgetExhausted, exceededCalls,
                   closedTimers, unclosed, storage, request, lastSeenId,
                   transport, consumed, esLastId>>
    /\ reconnected' = NoReconnect
    /\ timerConnected' = FALSE
    /\ UNCHANGED serverVars
    /\ storageThrew' = FALSE

\* eventSource.onmessage
OnMessage(data, lastEventId) ==
    /\ eventSource = "OPEN"
    /\ frame' = [some |-> TRUE, data |-> data, lastEventId |-> lastEventId]
    /\ \E setItemThrows \in (IF lastEventId # <<>> THEN BOOLEAN ELSE {FALSE}) :
          /\ storage' = IF lastEventId # <<>>
                        THEN saveLastEventId(storage, lastEventId, setItemThrows)
                        ELSE storage
          /\ lastSeenId' = IF lastEventId # <<>> /\ ~setItemThrows
                           THEN Item(lastEventId) ELSE lastSeenId
          /\ storageThrew' = setItemThrows
    /\ esLastId' = lastEventId
    /\ consumed' = IF transport # 0 THEN consumed + 1 ELSE consumed
    /\ UNCHANGED transport
    /\ LET parsedData == safeJsonParse(data)
           eventType == eventTypeOf(parsedData)
       IN  delivered' = invoke(listeners, eventType, parsedData)
    /\ calls' = <<>>
    /\ scheduledDelay' = Absent
    /\ UNCHANGED <<maxRetryAttempts, heartbeatInterval, reconnectInterval,
                   eventSource, reconnectAttempts, isClosed, heartbeatTimer,
                   timers, intervals, budgetExhausted, exceededCalls,
                   closedTimers, unclosed, listeners, request>>
    /\ reconnected' = NoReconnect
    /\ timerConnected' = FALSE
    /\ UNCHANGED serverVars

\* a setInterval timer of startHeartbeat fires: the callback looks up the
\* 'ping' listener
HeartbeatFires ==
    /\ intervals > 0
    /\ calls' = <<"heartbeat">>
    /\ frame' = NoFrame
    /\ delivered' = invoke(listeners, "ping", Timestamp)
    /\ scheduledDelay' = Absent
    /\ UNCHANGED <<maxRetryAttempts, heartbeatInterval, transport, consumed, esLastId, request, storage, lastSeenId, listeners, unclosed, reconnectInterval,
                   eventSource, reconnectAttempts, isClosed, heartbeatTimer,
                   timers, intervals, budgetExhausted, exceededCalls,
                   closedTimers>>
    /\ reconnected' = NoReconnect
    /\ timerConnected' = FALSE
    /\ UNCHANGED serverVars
    /\ storageThrew' = FALSE

\* options.reconnectInterval: not given, or a number of milliseconds
IntervalOptions == {Absent, Num(0), Num(1000)}

RetryOptions == {Absent} \cup {Num(n) : n \in 0..MaxRetryCfg}

\* the item of localStorage when the client is constructed: none, or the
\* cursor an earlier session left under the same key
StoredItems == {NoItem, Item(<<"2">>)}

\* the client after construction, for the given options
ClientConstructed(retryOption, heartbeatOption, intervalOption, stored) ==
    /\ maxRetryAttempts = retryOption
    /\ heartbeatInterval = heartbeatOption
    /\ eventSource = "null"
    /\ reconnectAttempts = 0
    /\ isClosed = FALSE
    /\ heartbeatTimer = FALSE
    /\ timers = 0
    /\ intervals = 0
    /\ calls = <<>>
    /\ budgetExhausted = FALSE
    /\ exceededCalls = 0
    /\ closedTimers = 0
    /\ scheduledDelay = Absent
    /\ reconnectInterval = intervalOption
    /\ unclosed = 0
    /\ listeners = [t \in ListenerTypes |-> NoHandler]
    /\ frame = NoFrame
    /\ delivered = <<>>
    /\ storage = stored
    /\ request = NoItem
    /\ lastSeenId = NoItem
    /\ reconnected = NoReconnect
    /\ timerConnected = FALSE
    /\ transport = 0
    /\ consumed = 0
    /\ esLastId = <<>>
    /\ storageThrew = FALSE

ClientInit ==
    \E retryOption \in RetryOptions, heartbeatOption \in BOOLEAN,
       intervalOption \in IntervalOptions, stored \in StoredItems :
        ClientConstructed(retryOption, heartbeatOption, intervalOption, stored)

ClientNext ==
    \/ Connect
    \/ Close
    \/ Reconnect
    \/ OnOpen
    \/ OnError
    \/ TimerFires
    \/ HeartbeatFires
    \/ \E event \in ListenerTypes, handler \in HandlerIds : On(event, handler)
    \/ \E data \in Payloads, lastEventId \in FrameIds :
          OnMessage(data, lastEventId)

(***************************************************************************)
(* Properties of the client's retry budget.                                *)
(***************************************************************************)
\* a retry timer fires and calls connect()
TimerConnects == TimerFires /\ ~isClosed

\* C9: once a transport error has found the retry budget used up, no retry
\* is scheduled and no timer calls connect() until reconnect() is called.
C9_NoRetryAfterExhaustion ==
    [][budgetExhausted => (~TimerConnects /\ timers' <= timers)]_vars

\* C10: in a run of failures that has used up the retry budget,
\* onMaxRetriesExceeded has been invoked exactly once.
C10_ExhaustionCallbackOnce == budgetExhausted => exceededCalls = 1

\* C11: when a transport error has found the retry budget used up, the
\* client has closed itself: isClosed is set and the transport is torn down,
\* and it stays so until reconnect() is called.
C11_SelfClosesOnExhaustion ==
    budgetExhausted => (isClosed /\ eventSource = "null")

\* A retry timer that was scheduled before the last close() fires.
StaleTimerFires == TimerFires /\ closedTimers' < closedTimers

\* C12: close() makes every reconnect scheduled before it a no-op: when such
\* a timer fires later it never opens a new transport.
C12_ClosedTimersNoOp == [][StaleTimerFires => UNCHANGED eventSource]_vars

\* the state after a step of tryReconnect that scheduled a timer
Scheduled == scheduledDelay.kind = "int"

\* C13 as stated: for attempt n (the counter after its increment) the wait
\* is an integer in [0, min(base * 2^(n-1), 30000)), where base is
\* reconnectInterval, or 3000 when reconnectInterval is not given.
C13_DelayRange_Stated ==
    Scheduled =>
        LET base == IF reconnectInterval.kind = "absent"
                    THEN 3000 ELSE reconnectInterval.val
            bound == base * 2^(reconnectAttempts - 1)
        IN  /\ 0 <= scheduledDelay.val
            /\ scheduledDelay.val < (IF bound < 30000 THEN bound ELSE 30000)

\* C13 amended: the same range, where base is 3000 also when reconnectInterval
\* is 0 (the code takes the default for every falsy value).
C13_DelayRange ==
    Scheduled =>
        LET base == IF reconnectInterval.kind = "absent" \/ reconnectInterval.val = 0
                    THEN 3000 ELSE reconnectInterval.val
            bound == base * 2^(reconnectAttempts - 1)
        IN  /\ 0 <= scheduledDelay.val
            /\ scheduledDelay.val < (IF bound < 30000 THEN bound ELSE 30000)

\* reconnectInterval = 1000, third attempt: the largest wait, 3999, is drawn
C13_Witness ==
    /\ Scheduled
    /\ reconnectInterval = Num(1000)
    /\ reconnectAttempts = 3
    /\ scheduledDelay = Num(3999)

\* the step in which the transport reports open
Opens == eventSource = "CONNECTING" /\ eventSource' = "OPEN"

\* C14: when a transport reports open, in that same step the attempt counter
\* becomes 0, the open callback is invoked and the heartbeat (when one is
\* configured) is started; an open connection always has the full budget.
C14_OpenResetsBudget ==
    [][/\ eventSource' = "OPEN" => reconnectAttempts' = 0
       /\ Opens => /\ calls' = <<"onOpen">>
                   /\ heartbeatInterval =>
                          (heartbeatTimer' /\ intervals' = intervals + 1)]_vars

\* the transport opened while a retry was counted and its timer still pending
C14_Witness ==
    /\ eventSource = "OPEN"
    /\ calls = <<"onOpen">>
    /\ reconnectAttempts = 0
    /\ timers >= 1
    /\ heartbeatTimer

\* C15: close() called while the client is not closed leaves isClosed set,
\* no transport, and no heartbeat timer that could fire afterwards.
C15_CloseStopsEverything ==
    [][(Close /\ ~isClosed) =>
          (isClosed' /\ eventSource' = "null" /\ intervals' = 0)]_vars

\* C16: a heartbeat timer runs only while the connection is open: none is
\* running when there is no transport, while connecting or after an error.
C16_HeartbeatOnlyWhileOpen == intervals > 0 => eventSource = "OPEN"

\* C17: at every moment at most one transport is unclosed, and it is the one
\* the client holds: connect() closes the transport it replaces, so no
\* replaced transport is left to deliver events.
C17_OneTransport ==
    /\ unclosed <= 1
    /\ unclosed = 1 <=> Live(eventSource)

\* connect() has replaced an open transport: the heartbeat started by its
\* onopen is still set while the new transport is connecting
C17_Witness ==
    /\ eventSource = "CONNECTING"
    /\ heartbeatTimer
    /\ unclosed = 1

\* C18: when the payload of an inbound frame cannot be parsed, the raw text
\* is delivered to the application's handler in place of a parsed structure.
C18_RawTextDelivered ==
    (/\ frame.some
     /\ ~JSONparse(frame.data).ok
     /\ listeners["message"] # NoHandler)
        => \E i \in DOMAIN delivered : delivered[i].arg = String(frame.data)

\* a step that calls connect()
Connects == Connect \/ Reconnect \/ TimerConnects

\* C19 as stated: every frame that carries an id overwrites the stored
\* cursor with that id; every connect() requests resumption from exactly the
\* stored cursor, and carries no resumption id when none is stored.
C19_CursorRoundTrip_Stated ==
    [][/\ (frame'.some /\ frame'.lastEventId # <<>>)
            => storage' = Item(frame'.lastEventId)
       /\ Connects =>
            IF storage.has
            THEN request'.has /\ queryValue(request'.value) = storage.value
            ELSE ~request'.has]_vars

\* C19: unless localStorage throws, a frame that carries an id overwrites the
\* stored cursor with that id, and every connect() requests resumption from
\* exactly the stored cursor (the id of the last id-carrying frame stored, once
\* this client has stored one) and carries no resumption id when none is
\* stored. When setItem throws the cursor keeps its value; when getItem
\* throws the request carries no resumption id.
C19_CursorRoundTrip ==
    [][/\ (frame'.some /\ frame'.lastEventId # <<>>)
            => IF storageThrew' THEN storage' = storage
               ELSE storage' = Item(frame'.lastEventId)
       /\ Connects =>
            IF storageThrew' \/ ~storage.has THEN ~request'.has
            ELSE /\ request'.has
                 /\ queryValue(request'.value) = storage.value
                 /\ lastSeenId.has => lastSeenId = storage]_vars

\* a transport was opened with the escaped id "&" after a frame carried it
C19_Witness ==
    /\ eventSource = "CONNECTING"
    /\ ~storageThrew
    /\ lastSeenId = Item(<<"&">>)
    /\ request = Item(<<"%", "2", "6">>)

\* the logical type of a frame: the event property of its parsed payload
LogicalType(data) ==
    IF JSONparse(data).ok THEN JSONparse(data).value.event ELSE undefined

\* C20: the registry holds one handler per type: on(t, h) makes h the
\* handler of t, replacing the one before, and changes no other type's; a
\* frame of logical type t invokes exactly the handler registered for t, and
\* no handler at all when t has none.
C20_OneHandlerPerType ==
    [][/\ \A t \in ListenerTypes, h \in HandlerIds :
            On(t, h) => /\ listeners'[t] = h
                        /\ \A u \in ListenerTypes \ {t} : listeners'[u] = listeners[u]
       /\ frame'.some =>
            LET t == LogicalType(frame'.data)
            IN  IF t \in ListenerTypes /\ listeners[t] # NoHandler
                THEN /\ Len(delivered') = 1
                     /\ delivered'[1].handler = listeners[t]
                     /\ delivered'[1].type = t
                ELSE delivered' = <<>>]_vars

\* a frame of type message was handed to handler 2 and to no other, while
\* another handler is registered for ping
C20_Witness ==
    /\ frame.some
    /\ listeners = [t \in ListenerTypes |-> IF t = "message" THEN 2 ELSE 1]
    /\ delivered = <<[handler |-> 2, type |-> "message", arg |-> Object("message")]>>

\* C21: reconnect() called on a closed client or one whose retry budget is
\* exhausted leaves the attempt counter at 0, the closed flag cleared and a
\* new transport connecting as the only one.
C21_ReconnectResumes ==
    (reconnected.some /\ (reconnected.isClosed \/ reconnected.exhausted)) =>
        /\ reconnectAttempts = 0
        /\ ~isClosed
        /\ eventSource = "CONNECTING"
        /\ unclosed = 1

\* reconnect() was called after two counted retries had exhausted the budget
C21_Witness ==
    /\ reconnected.some
    /\ reconnected.exhausted
    /\ reconnected.attempts = 2
    /\ reconnectAttempts = 0
    /\ eventSource = "CONNECTING"

\* the step in which the transport reports an error
Errors == calls' # <<>> /\ calls'[1] = "onError"

C29_AttemptsWithinBudget ==
    LET budget == IF maxRetryAttempts.kind = "absent"
                  THEN 10 ELSE maxRetryAttempts.val
    IN  /\ reconnectAttempts \in 0..budget
        /\ (\E i \in DOMAIN calls : calls[i] = "onReconnectAttempt")
              => reconnectAttempts \in 1..budget

\* the last retry of a budget of two was announced to onReconnectAttempt
C29_Witness ==
    /\ maxRetryAttempts = Num(2)
    /\ reconnectAttempts = 2
    /\ calls = <<"onError", "onReconnectAttempt">>

\* C30: at most one retry timer is pending at any time.
C30_OneTimerPending == timers <= 1

(***************************************************************************)
(* One client subscribed to one server: the requests of the client's        *)
(* EventSource are served by streamToClient, whose frames it dispatches.    *)
(***************************************************************************)
\* `id: ${event.id}`: the decimal digits of a sequence id
RECURSIVE decimal(_)
decimal(n) ==
    IF n < 10 THEN <<Digits[n + 1]>>
    ELSE decimal(n \div 10) \o <<Digits[(n % 10) + 1]>>

\* JSON.stringify(event.data) of a pulled item
JSONstringify(item) ==
    CASE item.event = "message" -> "{\"event\":\"message\"}"
      [] item.event = "end" -> "{\"event\":\"end\"}"
      [] item.event = "custom" -> "{\"event\":\"custom\"}"

\* req.headers['last-event-id'] || req.query.lastEventId: the browser sends
\* the header when the EventSource's last event ID string is not empty
lastEventIdOf(header, param) ==
    IF header # <<>> THEN header
    ELSE IF param.has THEN queryValue(param.value) ELSE <<>>

\* the allowedEvents argument of the route handler, ['message', 'end', 'test'],
\* as far as the sources yield its types
ServerAllowedEvents == {"message", "end"}

\* the request of the connecting EventSource reaches streamToClient
SessionRequest(s) ==
    /\ eventSource = "CONNECTING"
    /\ transport = 0
    /\ attach(s, lastEventIdOf(esLastId, request), ServerAllowedEvents)
    /\ transport' = s
    /\ consumed' = 0
    /\ calls' = <<>>
    /\ scheduledDelay' = Absent
    /\ NoDispatch
    /\ reconnected' = NoReconnect
    /\ timerConnected' = FALSE
    /\ UNCHANGED <<maxRetryAttempts, heartbeatInterval, reconnectInterval,
                   eventSource, reconnectAttempts, isClosed, heartbeatTimer,
                   timers, intervals, budgetExhausted, exceededCalls,
                   closedTimers, unclosed, listeners, request, storage,
                   lastSeenId, esLastId>>
    /\ storageThrew' = FALSE

\* the response headers of streamToClient reach the EventSource
SessionOpen == transport # 0 /\ OnOpen

\* the EventSource dispatches the next frame of the response
SessionMessage ==
    /\ transport # 0
    /\ consumed < Len(written[transport])
    /\ LET next == written[transport][consumed + 1]
       IN  OnMessage(JSONstringify(next.data), decimal(next.id))

\* a step of a call's loop, while the store has admitted less than SessionAdmit
SessionStreamStep(s) == globalCounter < SessionAdmit /\ StreamStep(s)

\* the application calls on('message', handler): the type the frames of the
\* session carry a handler for
SessionOn == \E handler \in HandlerIds : On("message", handler)

SessionNext ==
    \/ \E s \in Streams :
          \/ SessionRequest(s)
          \/ SessionStreamStep(s)
          \/ IteratorReturn(s)
    \/ SessionOpen
    \/ SessionMessage
    \/ SessionOn
    \/ Connect
    \/ Close
    \/ Reconnect
    \/ OnError
    \/ TimerFires

(***************************************************************************)
(* Properties of one client subscribed to one server.                      *)
(***************************************************************************)
\* the step dispatches a frame and stores its id
Persists ==
    /\ consumed' = consumed + 1
    /\ frame'.lastEventId # <<>>
    /\ ~storageThrew'

\* the persisted cursor read as a sequence id
cursorOf(item) == parseInt(item.value)

\* C31 as stated: the persisted cursor changes only when the id of a frame is
\* persisted, and each id persisted is a sequence id greater than the cursor
\* persisted before it, whoever persisted that one
C31_CursorIncreases_Stated ==
    [][/\ (storage' # storage => Persists)
       /\ (Persists =>
              /\ storage' = Item(frame'.lastEventId)
              /\ cursorOf(storage').kind = "int"
              /\ (storage.has =>
                     cursorOf(storage').val > cursorOf(storage).val))]_vars

\* C31: for one client subscribed to one server store, the persisted cursor
\* changes only when the client persists the id of a frame, and each id the
\* client persists is a sequence id greater than the one it persisted before
\* it, whatever frames, transport errors, retries, close(), reconnect() and
\* storage failures come in between; the cursor an earlier session left in
\* storage is overwritten by the first id persisted, greater or not
C31_CursorIncreases ==
    [][/\ (storage' # storage => Persists)
       /\ (Persists =>
              /\ storage' = Item(frame'.lastEventId)
              /\ lastSeenId' = storage'
              /\ cursorOf(storage').kind = "int"
              /\ (lastSeenId.has =>
                     /\ storage = lastSeenId
                     /\ cursorOf(storage').val > cursorOf(lastSeenId).val))]_vars

\* the client persisted id 1 on its first connection and handed the frame to
\* a handler, came back with the cursor 1, and has persisted the replayed id 2
C31_Witness ==
    /\ transport = 2
    /\ lastId[2] = Num(1)
    /\ attachCounter[2] = 2
    /\ consumed = 1
    /\ Len(delivered) = 1
    /\ lastSeenId = Item(<<"2">>)
    /\ storage = Item(<<"2">>)

\* the server with a client that is constructed and left alone
InitServer == ServerInit /\ ClientConstructed(Absent, FALSE, Absent, NoItem)
SpecServer == InitServer /\ [][ServerNext]_vars

\* the same, with every source going on to yield, end or raise
LiveServer ==
    /\ InitServer
    /\ [][ServerNext]_vars
    /\ \A s \in Streams : WF_vars(StreamStep(s))

\* the client with a server that is constructed and left alone
InitClient == ServerInit /\ maxHistorySize = 1 /\ ClientInit
SpecClient == InitClient /\ [][ClientNext]_vars

\* the client with the default reconnectInterval, and every pending retry
\* timer firing in the end
InitLiveClient == InitClient /\ reconnectInterval = Absent
LiveClient == InitLiveClient /\ [][ClientNext]_vars /\ WF_vars(TimerFires)

\* one client, constructed with a budget of one retry, and its server, whose
\* store keeps MaxHistoryCfg events
InitSession ==
    /\ ServerInit
    /\ maxHistorySize = MaxHistoryCfg
    /\ \E stored \in StoredItems :
          ClientConstructed(Num(1), FALSE, Absent, stored)
SpecSession == InitSession /\ [][SessionNext]_vars

\* both halves
Init == ServerInit /\ ClientInit
Next == ServerNext \/ ClientNext
Spec == Init /\ [][Next]_vars

====
